---- MODULE Spec2Model ----
(***************************************************************************)
(* Model of ASanchez144/Verificador-IA.                                    *)
(*                                                                         *)
(*  - geminiService (src/unnamed/part_000): analyzeUrl recovers a JSON     *)
(*    object from the model's reply (fence stripping, brace slicing,       *)
(*    JSON.parse, grounding sources), with a catch-all fallback;           *)
(*    analyzeText / analyzeImage / analyzeVideo parse the reply directly.  *)
(*  - App (src/components/ResultCard.tsx, lines 87-227): the React state   *)
(*    and its handlers handleTabChange, handleFileChange, handleAnalyze.   *)
(*                                                                         *)
(* Texts are sequences of one-character strings, so that the string        *)
(* operations of the code are computed character by character.  A string   *)
(* literal of the code that is never scanned (a message, a placeholder)    *)
(* is kept as one unit.                                                    *)
(***************************************************************************)
EXTENDS Integers, Sequences, FiniteSets, TLC

VARIABLES
    \* analyzeUrl (one invocation, followed step by step)
    pc,          \* position inside analyzeUrl
    response,    \* the value generateContent resolved with
    jsonText,    \* the local variable jsonText
    parsed,      \* the local variable result
    thrown,      \* the exception caught at line 87, if any
    returned,    \* the value the promise of analyzeUrl resolved with
    \* App
    activeTab, inputText, selectedFile, previewUrl, loading, result, error,
    pending      \* the suspended handleAnalyze call, if any

urlVars == <<pc, response, jsonText, parsed, thrown, returned>>
appVars == <<activeTab, inputText, selectedFile, previewUrl, loading, result, error, pending>>
vars == <<pc, response, jsonText, parsed, thrown, returned, activeTab, inputText, selectedFile, previewUrl, loading, result, error, pending>>

----------------------------------------------------------------------------
(* JavaScript values *)

JUndef == [t |-> "undefined", v |-> <<>>]
JNull == [t |-> "null", v |-> <<>>]
JBool(b) == [t |-> "boolean", v |-> b]
JNum(n) == [t |-> "number", v |-> n]
JStr(s) == [t |-> "string", v |-> s]
JArr(items) == [t |-> "array", v |-> items]
\* an object is a function from its keys to its values
JObj(f) == [t |-> "object", v |-> f]

NoProps == <<>>
SetProp(f, k, x) == (k :> x) @@ f
HasProp(o, k) == o.t = "object" /\ k \in DOMAIN o.v

\* JavaScript truthiness, for the values the || operators of the code meet
Truthy(x) ==
    CASE x.t = "undefined" -> FALSE
      [] x.t = "null" -> FALSE
      [] x.t = "string" -> x.v # <<>>
      [] x.t = "boolean" -> x.v
      [] x.t = "number" -> x.v # 0
      [] OTHER -> TRUE

----------------------------------------------------------------------------
(* String operations used by analyzeUrl *)

\* whether pat occurs in s at position i (1-based)
MatchAt(s, i, pat) == i + Len(pat) - 1 <= Len(s) /\ SubSeq(s, i, i + Len(pat) - 1) = pat

\* String.prototype.replace(/pat/g, ''): the leftmost match is removed, and the scan
\* goes on after it
RECURSIVE RemoveAll(_, _)
RemoveAll(s, pat) ==
    IF \E i \in 1..Len(s) : MatchAt(s, i, pat)
    THEN LET first == CHOOSE i \in 1..Len(s) :
                          MatchAt(s, i, pat) /\ \A j \in 1..(i - 1) : ~MatchAt(s, j, pat)
         IN SubSeq(s, 1, first - 1) \o RemoveAll(SubSeq(s, first + Len(pat), Len(s)), pat)
    ELSE s

\* String.prototype.indexOf(c): 0-based, -1 when absent
IndexOf(s, c) ==
    IF \E i \in 1..Len(s) : s[i] = c
    THEN (CHOOSE i \in 1..Len(s) : s[i] = c /\ \A j \in 1..(i - 1) : s[j] # c) - 1
    ELSE -1

\* String.prototype.lastIndexOf(c)
LastIndexOf(s, c) ==
    IF \E i \in 1..Len(s) : s[i] = c
    THEN (CHOOSE i \in 1..Len(s) : s[i] = c /\ \A j \in (i + 1)..Len(s) : s[j] # c) - 1
    ELSE -1

Clamp(n, lo, hi) == IF n < lo THEN lo ELSE IF n > hi THEN hi ELSE n

\* String.prototype.substring(a, b): clamps both to [0, length], swaps them when a > b
Substring(s, a, b) ==
    LET ca == Clamp(a, 0, Len(s))
        cb == Clamp(b, 0, Len(s))
        from == IF ca <= cb THEN ca ELSE cb
        to == IF ca <= cb THEN cb ELSE ca
    IN SubSeq(s, from + 1, to)

IsWs(c) == c \in {" ", "\n", "\t", "\r"}

\* String.prototype.trim()
RECURSIVE TrimLeft(_)
TrimLeft(s) == IF s # <<>> /\ IsWs(Head(s)) THEN TrimLeft(Tail(s)) ELSE s
RECURSIVE TrimRight(_)
TrimRight(s) == IF s # <<>> /\ IsWs(s[Len(s)]) THEN TrimRight(SubSeq(s, 1, Len(s) - 1)) ELSE s
Trim(s) == TrimRight(TrimLeft(s))

----------------------------------------------------------------------------
(* JSON.parse, by recursive descent.  Numbers are integers without         *)
(* fraction or exponent and string escapes are \" \\ \/ \n \t \r; the      *)
(* replies of the model below use nothing else.                            *)

ParseFail == [ok |-> FALSE, val |-> JUndef, pos |-> 0]
ParseOk(x, p) == [ok |-> TRUE, val |-> x, pos |-> p]

RECURSIVE SkipWs(_, _)
SkipWs(s, i) == IF i <= Len(s) /\ IsWs(s[i]) THEN SkipWs(s, i + 1) ELSE i

Digits == <<"0", "1", "2", "3", "4", "5", "6", "7", "8", "9">>
IsDigit(c) == \E d \in 1..10 : Digits[d] = c
DigitVal(c) == (CHOOSE d \in 1..10 : Digits[d] = c) - 1

Unescape(c) ==
    CASE c = "n" -> "\n"
      [] c = "t" -> "\t"
      [] c = "r" -> "\r"
      [] OTHER -> c

\* i is the position after the opening quote, acc the characters read so far
RECURSIVE ParseString(_, _, _)
ParseString(s, i, acc) ==
    IF i > Len(s) THEN ParseFail
    ELSE IF s[i] = "\"" THEN ParseOk(JStr(acc), i + 1)
    ELSE IF s[i] = "\\"
         THEN IF i + 1 <= Len(s) /\ s[i + 1] \in {"\"", "\\", "/", "n", "t", "r"}
              THEN ParseString(s, i + 2, Append(acc, Unescape(s[i + 1])))
              ELSE ParseFail
    ELSE IF s[i] \in {"\n", "\t", "\r"} THEN ParseFail
    ELSE ParseString(s, i + 1, Append(acc, s[i]))

RECURSIVE ParseDigits(_, _, _)
ParseDigits(s, i, n) ==
    IF i <= Len(s) /\ IsDigit(s[i])
    THEN ParseDigits(s, i + 1, 10 * n + DigitVal(s[i]))
    ELSE ParseOk(JNum(n), i)

\* i is the position of the first digit
ParseNatural(s, i) ==
    IF i > Len(s) \/ ~IsDigit(s[i]) THEN ParseFail
    ELSE IF s[i] = "0" THEN ParseOk(JNum(0), i + 1)
    ELSE ParseDigits(s, i, 0)

ParseNumber(s, i) ==
    IF s[i] = "-"
    THEN LET r == ParseNatural(s, i + 1)
         IN IF r.ok THEN ParseOk(JNum(0 - r.val.v), r.pos) ELSE ParseFail
    ELSE ParseNatural(s, i)

RECURSIVE ParseValue(_, _)
RECURSIVE ParseElements(_, _, _)
RECURSIVE ParseMembers(_, _, _)

ParseValue(s, i0) ==
    LET i == SkipWs(s, i0)
    IN IF i > Len(s) THEN ParseFail
       ELSE IF s[i] = "{"
            THEN LET j == SkipWs(s, i + 1)
                 IN IF j <= Len(s) /\ s[j] = "}"
                    THEN ParseOk(JObj(NoProps), j + 1)
                    ELSE ParseMembers(s, j, NoProps)
       ELSE IF s[i] = "["
            THEN LET j == SkipWs(s, i + 1)
                 IN IF j <= Len(s) /\ s[j] = "]"
                    THEN ParseOk(JArr(<<>>), j + 1)
                    ELSE ParseElements(s, j, <<>>)
       ELSE IF s[i] = "\"" THEN ParseString(s, i + 1, <<>>)
       ELSE IF s[i] = "-" \/ IsDigit(s[i]) THEN ParseNumber(s, i)
       ELSE IF MatchAt(s, i, <<"t", "r", "u", "e">>) THEN ParseOk(JBool(TRUE), i + 4)
       ELSE IF MatchAt(s, i, <<"f", "a", "l", "s", "e">>) THEN ParseOk(JBool(FALSE), i + 5)
       ELSE IF MatchAt(s, i, <<"n", "u", "l", "l">>) THEN ParseOk(JNull, i + 4)
       ELSE ParseFail

\* the elements of an array from position i, after those of acc
ParseElements(s, i, acc) ==
    LET r == ParseValue(s, i)
    IN IF ~r.ok THEN ParseFail
       ELSE LET j == SkipWs(s, r.pos)
            IN IF j > Len(s) THEN ParseFail
               ELSE IF s[j] = "," THEN ParseElements(s, j + 1, Append(acc, r.val))
               ELSE IF s[j] = "]" THEN ParseOk(JArr(Append(acc, r.val)), j + 1)
               ELSE ParseFail

\* the members of an object from position i (white space skipped), after those of acc;
\* a repeated key keeps its last value
ParseMembers(s, i, acc) ==
    IF i > Len(s) \/ s[i] # "\"" THEN ParseFail
    ELSE LET k == ParseString(s, i + 1, <<>>)
         IN IF ~k.ok THEN ParseFail
            ELSE LET c == SkipWs(s, k.pos)
                 IN IF c > Len(s) \/ s[c] # ":" THEN ParseFail
                    ELSE LET r == ParseValue(s, c + 1)
                         IN IF ~r.ok THEN ParseFail
                            ELSE LET j == SkipWs(s, r.pos)
                                     f == SetProp(acc, k.val.v, r.val)
                                 IN IF j > Len(s) THEN ParseFail
                                    ELSE IF s[j] = "," THEN ParseMembers(s, SkipWs(s, j + 1), f)
                                    ELSE IF s[j] = "}" THEN ParseOk(JObj(f), j + 1)
                                    ELSE ParseFail

\* JSON.parse(text): [ok |-> TRUE, val |-> value], or ok = FALSE for a SyntaxError
JsonParse(s) ==
    LET r == ParseValue(s, 1)
    IN IF r.ok /\ SkipWs(s, r.pos) = Len(s) + 1
       THEN [ok |-> TRUE, val |-> r.val]
       ELSE [ok |-> FALSE, val |-> JUndef]

----------------------------------------------------------------------------
(* The replies of the model: what generateContent can resolve with *)

K_isAiGenerated == <<"i", "s", "A", "i", "G", "e", "n", "e", "r", "a", "t", "e", "d">>
K_confidenceScore == <<"c", "o", "n", "f", "i", "d", "e", "n", "c", "e", "S", "c", "o", "r", "e">>
K_verdict == <<"v", "e", "r", "d", "i", "c", "t">>
K_reasoning == <<"r", "e", "a", "s", "o", "n", "i", "n", "g">>
K_indicators == <<"i", "n", "d", "i", "c", "a", "t", "o", "r", "s">>
K_sources == <<"s", "o", "u", "r", "c", "e", "s">>
K_uri == <<"u", "r", "i">>
K_title == <<"t", "i", "t", "l", "e">>
K_web == <<"w", "e", "b">>
V_AI == <<"A", "I">>
V_Human == <<"H", "u", "m", "a", "n">>
V_Mixed == <<"M", "i", "x", "e", "d", "/", "U", "n", "c", "e", "r", "t", "a", "i", "n">>
V_Robot == <<"R", "o", "b", "o", "t">>
Verdicts == {V_Human, V_AI, V_Mixed}

\* the backquote character: the parser of TLA+ accepts none inside a string, so
\* the character # stands for it, and stands for nothing else in the texts below
BQ == "#"
\* the patterns of line 68: three backquotes followed by json, and three backquotes
FenceJson == <<BQ, BQ, BQ, "j", "s", "o", "n">>
Fence == <<BQ, BQ, BQ>>
DefaultText == <<"{", "}">>

Quoted(w) == <<"\"">> \o w \o <<"\"">>
Member(k, x) == Quoted(k) \o <<":">> \o x
RECURSIVE JoinWith(_, _)
JoinWith(parts, sep) ==
    IF parts = <<>> THEN <<>>
    ELSE IF Len(parts) = 1 THEN parts[1]
    ELSE parts[1] \o sep \o JoinWith(Tail(parts), sep)
ObjectText(members) == <<"{">> \o JoinWith(members, <<",">>) \o <<"}">>

M_flag == Member(K_isAiGenerated, <<"t", "r", "u", "e">>)
M_score == Member(K_confidenceScore, <<"8", "7">>)
M_verdict(w) == Member(K_verdict, Quoted(w))
M_reasoning(w) == Member(K_reasoning, Quoted(w))
M_indicators == Member(K_indicators, <<"[">> \o Quoted(<<"a">>) \o <<",">> \o Quoted(<<"b">>) \o <<"]">>)
M_sources == Member(K_sources, <<"[">> \o ObjectText(<<Member(K_uri, Quoted(<<"u">>)), Member(K_title, Quoted(<<"t">>))>>) \o <<"]">>)

\* the object of the format the prompt asks for (lines 52-58)
PayloadClean == ObjectText(<<M_flag, M_score, M_verdict(V_AI), M_reasoning(<<"r">>), M_indicators>>)
PayloadRobot == ObjectText(<<M_flag, M_score, M_verdict(V_Robot), M_reasoning(<<"r">>), M_indicators>>)
PayloadNoScore == ObjectText(<<M_flag, M_verdict(V_Human), M_reasoning(<<"r">>), M_indicators>>)
PayloadNoFlag == ObjectText(<<M_score, M_verdict(V_Mixed), M_reasoning(<<"r">>), M_indicators>>)
\* an object that brings a "sources" member of its own
PayloadSources == ObjectText(<<M_flag, M_score, M_verdict(V_AI), M_reasoning(<<"r">>), M_indicators, M_sources>>)
\* an object with a fence inside a string
PayloadFenceInside == ObjectText(<<M_flag, M_score, M_verdict(V_AI), M_reasoning(FenceJson \o <<"r">>), M_indicators>>)
\* the same object laid out over several lines
PayloadSpaced ==
    <<" ", "{", "\n">> \o JoinWith(<<M_flag, M_score, M_verdict(V_Human), M_reasoning(<<"r">>), M_indicators>>, <<",", "\n", " ">>) \o <<"\n", "}", "\n">>
PayloadEmpty == <<"{", "}">>
\* not JSON: the reply cut before its closing brace, an unquoted value, two objects
PayloadTruncated == SubSeq(PayloadClean, 1, Len(PayloadClean) - 1)
PayloadUnquoted == ObjectText(<<Member(K_verdict, V_AI)>>)
PayloadTwo == <<"{", "}", " ", "{", "}">>

Payloads ==
    {PayloadClean, PayloadRobot, PayloadNoScore, PayloadNoFlag, PayloadSources,
     PayloadFenceInside, PayloadSpaced, PayloadEmpty, PayloadTruncated,
     PayloadUnquoted, PayloadTwo}

\* replies without any brace, and one whose only braces are in the wrong order
BraceFreeTexts ==
    {<<>>, <<"5">>, Quoted(<<"a", "b", "c">>), <<"[", "]">>, <<"n", "u", "l", "l">>,
     <<"S", "o", "r", "r", "y", ".">>, FenceJson \o <<"\n">> \o Fence}
ReversedBraces == <<"}", " ", "{">>

ProseLead == <<"S", "u", "r", "e", ":", "\n">>
ProseTail == <<"\n", "B", "y", "e", ".">>
ProseBraces == <<"\n", "S", "e", "e", " ", "{", "x", "}", ".">>
Leads == {<<>>, ProseLead}
Tails == {<<>>, ProseTail, ProseBraces}
FenceKinds == {"none", "json", "bare", "js"}
OpenFence(kind) ==
    CASE kind = "json" -> FenceJson \o <<"\n">>
      [] kind = "bare" -> Fence \o <<"\n">>
      [] kind = "js" -> Fence \o <<"j", "s", "\n">>
      [] OTHER -> <<>>
CloseFence(kind) == IF kind = "none" THEN <<>> ELSE <<"\n">> \o Fence
Wrap(lead, kind, body, tail) == lead \o OpenFence(kind) \o body \o CloseFence(kind) \o tail

Texts ==
    {Wrap(lead, kind, body, tail) : lead \in Leads, kind \in FenceKinds, body \in Payloads, tail \in Tails}
        \cup BraceFreeTexts \cup {ReversedBraces}

\* grounding chunks: web may be missing, and so may web.uri and web.title
Web(uri, title) == JObj((K_uri :> uri) @@ (K_title :> title))
Chunk(web) == JObj((K_web :> web))
ChunkFull == Chunk(Web(JStr(<<"https://x">>), JStr(<<"X">>)))
ChunkNoTitle == Chunk(Web(JStr(<<"https://y">>), JUndef))
ChunkNoUri == Chunk(Web(JUndef, JStr(<<"Z">>)))
ChunkNoWeb == Chunk(JUndef)
Chunks == {ChunkFull, ChunkNoTitle, ChunkNoUri, ChunkNoWeb}

\* the longest list of grounding chunks considered
MaxChunks == 2
ChunkLists == UNION {[1..n -> Chunks] : n \in 0..MaxChunks}

\* response.text is undefined or a string; groundingChunks is undefined when any link
\* of response.candidates?.[0]?.groundingMetadata?.groundingChunks is missing
Responses ==
    {[text |-> t, groundingChunks |-> g] :
        t \in {JUndef} \cup {JStr(x) : x \in Texts},
        g \in {JUndef} \cup {JArr(c) : c \in ChunkLists}}

----------------------------------------------------------------------------
(* analyzeUrl *)

Get(o, k) == IF k \in DOMAIN o.v THEN o.v[k] ELSE JUndef

\* line 65: response.text || "{}"
TextOrDefault(text) == IF Truthy(text) THEN text.v ELSE DefaultText

\* line 68
StripFences(t) == RemoveAll(RemoveAll(t, FenceJson), Fence)

\* lines 71-75 with the end of the slice one short: the closing brace is cut
ExtractObject_OffByOne(t) ==
    LET firstBrace == IndexOf(t, "{")
        lastBrace == LastIndexOf(t, "}")
    IN IF firstBrace # -1 /\ lastBrace # -1
       THEN Substring(t, firstBrace, lastBrace)
       ELSE t

\* lines 71-75
ExtractObject(t) ==
    LET firstBrace == IndexOf(t, "{")
        lastBrace == LastIndexOf(t, "}")
    IN IF firstBrace # -1 /\ lastBrace # -1
       THEN Substring(t, firstBrace, lastBrace + 1)
       ELSE t

\* lines 82-84: chunks.map(chunk => chunk.web).filter(web => web !== undefined).map(...)
IsDefined(x) == x.t # "undefined"
MapSources(chunks) ==
    LET webs == [i \in 1..Len(chunks) |-> Get(chunks[i], K_web)]
        kept == SelectSeq(webs, IsDefined)
    IN [i \in 1..Len(kept) |->
           JObj((K_uri :> Get(kept[i], K_uri))
                @@ (K_title :> IF Truthy(Get(kept[i], K_title))
                               THEN Get(kept[i], K_title)
                               ELSE JStr(<<"Fuente">>)))]

\* line 81 throws a TypeError when result is null, or (a module is strict code) a primitive
AssignThrows(x) == x.t \notin {"object", "array"}

\* lines 79-86; an array keeps the property beside its items
WithSources(x, groundingChunks) ==
    IF ~Truthy(groundingChunks) THEN x
    ELSE IF x.t = "object" THEN JObj(SetProp(x.v, K_sources, JArr(MapSources(groundingChunks.v))))
    ELSE [t |-> "array", v |-> x.v, sources |-> JArr(MapSources(groundingChunks.v))]

\* lines 90-96
FallbackResult ==
    JObj((K_isAiGenerated :> JBool(FALSE))
         @@ (K_confidenceScore :> JNum(0))
         @@ (K_verdict :> JStr(V_Mixed))
         @@ (K_reasoning :> JStr(<<"No se pudo analizar el enlace correctamente. Es posible que el contenido sea inaccesible o la respuesta del modelo no fue valida.">>))
         @@ (K_indicators :> JArr(<<JStr(<<"Error de analisis">>)>>)))

\* no response yet
NoResponse == [text |-> JUndef, groundingChunks |-> JUndef]

UrlInit ==
    /\ pc = "idle"
    /\ response = NoResponse
    /\ jsonText = <<>>
    /\ parsed = JUndef
    /\ thrown = "none"
    /\ returned = JUndef

\* line 44: a call of analyzeUrl, up to the await of line 47
CallAnalyzeUrl ==
    /\ pc \in {"idle", "returned", "fallback"}
    /\ pc' = "await"
    /\ response' = NoResponse
    /\ jsonText' = <<>>
    /\ parsed' = JUndef
    /\ thrown' = "none"
    /\ returned' = JUndef
    /\ UNCHANGED appVars

\* lines 47-65: the call resolves; jsonText is initialised
GenerateContentResolves ==
    /\ pc = "await"
    /\ \E r \in Responses :
          /\ response' = r
          /\ jsonText' = TextOrDefault(r.text)
    /\ pc' = "text"
    /\ UNCHANGED <<parsed, thrown, returned>>
    /\ UNCHANGED appVars

\* lines 47, 87-96: the call rejects and the catch returns the fallback
GenerateContentRejects ==
    /\ pc = "await"
    /\ pc' = "fallback"
    /\ thrown' = "RequestError"
    /\ returned' = FallbackResult
    /\ UNCHANGED <<response, jsonText, parsed>>
    /\ UNCHANGED appVars

\* line 68
StripFencesStep ==
    /\ pc = "text"
    /\ jsonText' = StripFences(jsonText)
    /\ pc' = "clean"
    /\ UNCHANGED <<response, parsed, thrown, returned>>
    /\ UNCHANGED appVars

\* lines 71-75
ExtractObjectStep ==
    /\ pc = "clean"
    /\ jsonText' = ExtractObject(jsonText)
    /\ pc' = "slice"
    /\ UNCHANGED <<response, parsed, thrown, returned>>
    /\ UNCHANGED appVars

\* line 77, and lines 87-96 when JSON.parse throws
ParseStep ==
    /\ pc = "slice"
    /\ LET r == JsonParse(jsonText)
       IN IF r.ok
          THEN /\ parsed' = r.val
               /\ pc' = "parsed"
               /\ UNCHANGED <<thrown, returned>>
          ELSE /\ pc' = "fallback"
               /\ thrown' = "SyntaxError"
               /\ returned' = FallbackResult
               /\ UNCHANGED parsed
    /\ UNCHANGED <<response, jsonText>>
    /\ UNCHANGED appVars

\* lines 79-86, and lines 87-96 when the assignment of line 81 throws
ReturnStep ==
    /\ pc = "parsed"
    /\ IF Truthy(response.groundingChunks) /\ AssignThrows(parsed)
       THEN /\ pc' = "fallback"
            /\ thrown' = "TypeError"
            /\ returned' = FallbackResult
       ELSE /\ pc' = "returned"
            /\ returned' = WithSources(parsed, response.groundingChunks)
            /\ UNCHANGED thrown
    /\ UNCHANGED <<response, jsonText, parsed>>
    /\ UNCHANGED appVars

\* analyzeUrl as one function of the response: the steps above, composed
AnalyzeUrlOutcome(r) ==
    LET p == JsonParse(ExtractObject(StripFences(TextOrDefault(r.text))))
    IN IF ~p.ok \/ (Truthy(r.groundingChunks) /\ AssignThrows(p.val))
       THEN [path |-> "fallback", value |-> FallbackResult]
       ELSE [path |-> "returned", value |-> WithSources(p.val, r.groundingChunks)]

UrlNext ==
    \/ CallAnalyzeUrl
    \/ GenerateContentResolves
    \/ GenerateContentRejects
    \/ StripFencesStep
    \/ ExtractObjectStep
    \/ ParseStep
    \/ ReturnStep

----------------------------------------------------------------------------
(* analyzeText, analyzeImage, analyzeVideo: JSON.parse(response.text || "{}"), *)
(* any exception rethrown as a fixed Error                                     *)

\* lines 112, 136, 160
ParseReply(r) == JsonParse(TextOrDefault(r.text))

\* lines 115, 139, 163
ServiceError(tab) ==
    CASE tab = "TEXT" -> JStr(<<"Error al analizar texto.">>)
      [] tab = "IMAGE" -> JStr(<<"Error al analizar imagen.">>)
      [] tab = "VIDEO" -> JStr(<<"Error al analizar video.">>)

----------------------------------------------------------------------------
(* App *)

AnalysisType == {"URL", "IMAGE", "VIDEO", "TEXT"}

\* line 109
MaxFileSize == 10 * 1024 * 1024

File(name, size) == [t |-> "file", v |-> [name |-> name, size |-> size]]
Files == {File("small", 1024), File("limit", MaxFileSize), File("over", MaxFileSize + 1)}
\* e.target.files: empty when the picker is cancelled
FileLists == {<<>>} \cup {<<f>> : f \in Files}

\* what the user can type: nothing, white space only, a text
Inputs == {<<>>, <<" ">>, <<"h", "t", "t", "p">>}

\* the replies the service calls of the App are answered with
AppResponses ==
    {[text |-> t, groundingChunks |-> g] :
        t \in {JUndef, JStr(PayloadClean), JStr(Wrap(ProseLead, "json", PayloadClean, ProseTail)),
               JStr(<<"S", "o", "r", "r", "y", ".">>)},
        g \in {JUndef, JArr(<<ChunkFull>>)}}

\* what analyzeUrl (line 130) and the other services (lines 134-142) make of each reply
UrlOutcomes == [r \in AppResponses |-> AnalyzeUrlOutcome(r)]
ParsedReplies == [r \in AppResponses |-> ParseReply(r)]

\* no handleAnalyze call is suspended
NoRequest == [stage |-> "none", tab |-> "URL", navigated |-> FALSE]
\* a suspended handleAnalyze call: the branch of the switch it is in, the await it is
\* at ("reading": fileToBase64, "calling": the service), and, as a history of the run,
\* whether handleTabChange has run since the call started
Request(tab, stage) == [stage |-> stage, tab |-> tab, navigated |-> FALSE]

TooLarge == JStr(<<"El archivo es demasiado grande (Max 10MB).">>)

\* lines 129, 133, 137, 141
InputError(tab) ==
    CASE tab = "URL" -> JStr(<<"Ingresa un enlace valido.">>)
      [] tab = "TEXT" -> JStr(<<"Ingresa texto.">>)
      [] tab = "IMAGE" -> JStr(<<"Selecciona una imagen.">>)
      [] tab = "VIDEO" -> JStr(<<"Selecciona un video.">>)

\* lines 88-94
AppInit ==
    /\ activeTab = "URL"
    /\ inputText = <<>>
    /\ selectedFile = JNull
    /\ previewUrl = JNull
    /\ loading = FALSE
    /\ result = JNull
    /\ error = JNull
    /\ pending = NoRequest

\* lines 97-104
handleTabChange ==
    /\ \E tab \in AnalysisType : activeTab' = tab
    /\ result' = JNull
    /\ error' = JNull
    /\ inputText' = <<>>
    /\ selectedFile' = JNull
    /\ previewUrl' = JNull
    /\ pending' = IF pending.stage = "none" THEN pending ELSE [pending EXCEPT !.navigated = TRUE]
    /\ UNCHANGED loading
    /\ UNCHANGED urlVars

\* lines 200, 203: onChange of the input of the URL and TEXT tabs
setInputText ==
    /\ activeTab \in {"URL", "TEXT"}
    /\ \E x \in Inputs : inputText' = x
    /\ UNCHANGED <<activeTab, selectedFile, previewUrl, loading, result, error, pending>>
    /\ UNCHANGED urlVars

\* lines 106-118; the file input exists on the IMAGE and VIDEO tabs (line 205)
handleFileChange ==
    /\ activeTab \in {"IMAGE", "VIDEO"}
    /\ \E files \in FileLists :
          IF files = <<>>
          THEN UNCHANGED <<selectedFile, error, previewUrl, result>>
          ELSE IF files[1].v.size > MaxFileSize
          THEN /\ error' = TooLarge
               /\ UNCHANGED <<selectedFile, previewUrl, result>>
          ELSE /\ selectedFile' = files[1]
               /\ error' = JNull
               /\ previewUrl' = JStr(<<"blob:", files[1].v.name>>)
               /\ result' = JNull
    /\ UNCHANGED <<activeTab, inputText, loading, pending>>
    /\ UNCHANGED urlVars

\* whether the branch of the switch throws before its first await (lines 129-141)
InputMissing ==
    IF activeTab \in {"URL", "TEXT"} THEN Trim(inputText) = <<>> ELSE ~Truthy(selectedFile)

\* handleAnalyze without the setResult(null) of line 123
handleAnalyze_KeepsResult ==
    /\ ~loading
    /\ IF InputMissing
       THEN /\ error' = InputError(activeTab)
            /\ loading' = FALSE
            /\ pending' = NoRequest
       ELSE /\ error' = JNull
            /\ loading' = TRUE
            /\ pending' = Request(activeTab, IF activeTab \in {"IMAGE", "VIDEO"} THEN "reading" ELSE "calling")
    /\ UNCHANGED <<activeTab, inputText, selectedFile, previewUrl, result>>
    /\ UNCHANGED urlVars

\* lines 120-153, from the click to the first await or, when the input is missing, to
\* the end; the button is disabled while loading (line 214).  activeTab is always one
\* of the four types, so the default branch of line 145 is never taken.
handleAnalyze ==
    /\ ~loading
    /\ result' = JNull
    /\ IF InputMissing
       THEN /\ error' = InputError(activeTab)
            /\ loading' = FALSE
            /\ pending' = NoRequest
       ELSE /\ error' = JNull
            /\ loading' = TRUE
            /\ pending' = Request(activeTab, IF activeTab \in {"IMAGE", "VIDEO"} THEN "reading" ELSE "calling")
    /\ UNCHANGED <<activeTab, inputText, selectedFile, previewUrl>>
    /\ UNCHANGED urlVars

\* lines 78-85, 138, 142: fileToBase64 resolves and the service is called
fileReadResolves ==
    /\ pending.stage = "reading"
    /\ pending' = [pending EXCEPT !.stage = "calling"]
    /\ UNCHANGED <<activeTab, inputText, selectedFile, previewUrl, loading, result, error>>
    /\ UNCHANGED urlVars

\* lines 83, 148-152: fileToBase64 rejects with the reader's event, which has no message
fileReadRejects ==
    /\ pending.stage = "reading"
    /\ error' = JStr(<<"Error inesperado.">>)
    /\ loading' = FALSE
    /\ pending' = NoRequest
    /\ UNCHANGED <<activeTab, inputText, selectedFile, previewUrl, result>>
    /\ UNCHANGED urlVars

\* lines 130-147, 150-152: the service call resolves; analyzeUrl always does
serviceResolves ==
    /\ pending.stage = "calling"
    /\ \E r \in AppResponses :
          IF pending.tab = "URL"
          THEN result' = UrlOutcomes[r].value
          ELSE /\ ParsedReplies[r].ok
               /\ result' = ParsedReplies[r].val
    /\ loading' = FALSE
    /\ pending' = NoRequest
    /\ UNCHANGED <<activeTab, inputText, selectedFile, previewUrl, error>>
    /\ UNCHANGED urlVars

\* the rejection handled without the finally of lines 150-152
serviceRejects_NoFinally ==
    /\ pending.stage = "calling"
    /\ pending.tab # "URL"
    /\ error' = ServiceError(pending.tab)
    /\ pending' = NoRequest
    /\ UNCHANGED <<activeTab, inputText, selectedFile, previewUrl, result, loading>>
    /\ UNCHANGED urlVars

\* lines 113-116, 148-152: analyzeText, analyzeImage or analyzeVideo rejects (the request
\* failed, or the reply is not JSON)
serviceRejects ==
    /\ pending.stage = "calling"
    /\ pending.tab # "URL"
    /\ error' = ServiceError(pending.tab)
    /\ loading' = FALSE
    /\ pending' = NoRequest
    /\ UNCHANGED <<activeTab, inputText, selectedFile, previewUrl, result>>
    /\ UNCHANGED urlVars

AppNext ==
    \/ handleTabChange
    \/ setInputText
    \/ handleFileChange
    \/ handleAnalyze
    \/ fileReadResolves
    \/ fileReadRejects
    \/ serviceResolves
    \/ serviceRejects

----------------------------------------------------------------------------
(* Specifications *)

Init == UrlInit /\ AppInit

\* the App, its service calls taken as single steps
Spec == Init /\ [][AppNext]_vars

\* the App, every suspended call settling eventually
LiveSpec ==
    /\ Init
    /\ [][AppNext]_vars
    /\ WF_vars(fileReadResolves \/ fileReadRejects)
    /\ WF_vars(serviceResolves \/ serviceRejects)

\* calls of analyzeUrl, followed step by step over every reply
ExtractSpec == Init /\ [][UrlNext]_vars

----------------------------------------------------------------------------
(* Properties of analyzeUrl, under ExtractSpec *)

\* both ways out of analyzeUrl are return statements: the promise is fulfilled
Fulfilled == pc \in {"returned", "fallback"}
BraceFree(t) == \A i \in 1..Len(t) : t[i] \notin {"{", "}"}

\* C1: when the slice recovered from the reply cannot be parsed, the call ends in an
\* error carrying the raw text, and no default AnalysisResult is returned in place
\* of the failure.
C1_ParseFailureIsSurfaced ==
    ~(Fulfilled /\ thrown = "SyntaxError" /\ returned = FallbackResult)

\* C2: a reply text with neither "{" nor "}" fails; none reaches the return of a
\* successful result.
C2_BraceFreeTextFails ==
    (pc = "returned" /\ response.text.t = "string") => ~BraceFree(response.text.v)

\* C3: a returned result has a verdict among Human, AI, Mixed/Uncertain; a parsed
\* payload with another verdict is rejected, never passed through.
C3_VerdictInEnumeration ==
    (pc = "returned" /\ HasProp(returned, K_verdict)) =>
        /\ Get(returned, K_verdict).t = "string"
        /\ Get(returned, K_verdict).v \in Verdicts

\* C4: a parsed payload lacking confidenceScore or isAiGenerated is rejected; no result
\* without them is returned.
C4_RequiredFieldsPresent ==
    (pc = "returned" /\ returned.t = "object") =>
        /\ HasProp(returned, K_confidenceScore)
        /\ HasProp(returned, K_isAiGenerated)

\* the JSON object texts among the payloads
ValidObjectTexts == {j \in Payloads : JsonParse(j).ok /\ JsonParse(j).val.t = "object"}
Alone(j) == AnalyzeUrlOutcome([text |-> JStr(j), groundingChunks |-> JUndef])
\* the reply is j inside a fence, between prose without braces, with no grounding
IsWrapped(j) ==
    /\ ~Truthy(response.groundingChunks)
    /\ \E lead \in Leads, tail \in Tails, kind \in FenceKinds \ {"none"} :
          /\ BraceFree(lead)
          /\ BraceFree(tail)
          /\ response.text = JStr(Wrap(lead, kind, j, tail))

HasUri(chunk) == Get(chunk, K_web).t # "undefined" /\ Get(Get(chunk, K_web), K_uri).t # "undefined"
ExpectedSources(chunks) ==
    LET kept == SelectSeq(chunks, HasUri)
    IN [i \in 1..Len(kept) |->
           JObj((K_uri :> Get(Get(kept[i], K_web), K_uri))
                @@ (K_title :> IF Truthy(Get(Get(kept[i], K_web), K_title))
                               THEN Get(Get(kept[i], K_web), K_title)
                               ELSE JStr(<<"Fuente">>)))]

\* C6: with grounding references supplied, sources holds, in order, one pair per
\* reference that has a URI; references without a URI are skipped, so every source has
\* a defined uri.
C6_SourcesHaveUri ==
    (pc = "returned" /\ returned.t = "object" /\ Truthy(response.groundingChunks)) =>
        /\ HasProp(returned, K_sources)
        /\ Get(returned, K_sources).v = ExpectedSources(response.groundingChunks.v)

\* C7: sources is attached only when the mapped sequence is not empty.
C7_SourcesNeverEmpty ==
    (pc = "returned" /\ HasProp(returned, K_sources)) => Get(returned, K_sources).v # <<>>

----------------------------------------------------------------------------
(* Properties of the App, under Spec and LiveSpec *)

\* C8: a request started before a tab change never populates result after the change.
C8_StaleRequestNeverPopulates ==
    [][pending.navigated => result' = JNull]_vars

BothSet == error # JNull /\ result # JNull

\* C9 as claimed: error and result are never both non-null.  Stated of a request that
\* no tab change has overtaken (handleAnalyze cleared both when it started), so that a
\* violation does not rest on the stale completion of C8.
C9_ErrorXorResult_Original ==
    [][(pending.stage # "none" /\ ~pending.navigated) => ~BothSet']_vars

\* C9 as amended: error and result are both non-null only when the error is the one
\* handleFileChange sets for a file over 10 MB.
C9_ErrorXorResult ==
    BothSet => error = TooLarge

\* a file over 10 MB was refused while a result is held
C9_Witness ==
    error = TooLarge /\ result # JNull /\ ~loading

\* C10: loading is true exactly while one analysis request is in flight, and once true
\* it becomes false again, every suspended call settling eventually.
C10_LoadingWhileInFlight ==
    /\ [](loading <=> pending.stage # "none")
    /\ (loading ~> ~loading)

\* a request is in flight at the service, loading set
C10_Witness ==
    loading /\ pending.stage = "calling" /\ pending.tab = "TEXT"

====
